---- MODULE Spec2Model ----
(***************************************************************************)
(* Model of the address-validator API: the Google geocoding service        *)
(* (validateUSAddress, mapGoogleStatus, classifyGeocodeResults,            *)
(* compareAddresses, isCountryOnlyResult, extractAddressComponents), the   *)
(* controller and the error handler.                                       *)
(*                                                                         *)
(* JavaScript strings that the code processes character by character are  *)
(* sequences of one-character strings.  A value that may be `undefined`    *)
(* is an option: <<>> is undefined, <<v>> is the value v.                  *)
(***************************************************************************)
EXTENDS Integers, Sequences, FiniteSets, TLC

\* ------------------------------------------------------------------------
\* Bounds of the model
\* ------------------------------------------------------------------------
MaxResults == 2
MaxFrags == 3
MaxWords == 3
MaxShared == 3

\* ------------------------------------------------------------------------
\* Characters and strings
\* ------------------------------------------------------------------------
UpperCase == <<"A", "B", "C", "D", "E", "F", "G", "H", "I", "J", "K", "L", "M",
               "N", "O", "P", "Q", "R", "S", "T", "U", "V", "W", "X", "Y", "Z">>

LowerCase == <<"a", "b", "c", "d", "e", "f", "g", "h", "i", "j", "k", "l", "m",
               "n", "o", "p", "q", "r", "s", "t", "u", "v", "w", "x", "y", "z">>

Digits == {"0", "1", "2", "3", "4", "5", "6", "7", "8", "9"}

Range(f) == {f[i] : i \in DOMAIN f}

\* the lower-case letter of each upper-case letter
LowerOf == [c \in Range(UpperCase) |->
               LowerCase[CHOOSE i \in DOMAIN UpperCase : UpperCase[i] = c]]

\* String.prototype.toLowerCase on one character
toLowerCaseChar(c) == IF c \in DOMAIN LowerOf THEN LowerOf[c] ELSE c

toLowerCase(s) == [i \in DOMAIN s |-> toLowerCaseChar(s[i])]

\* the regular expression class \w (no unicode flag)
WordChars == Range(UpperCase) \cup Range(LowerCase) \cup Digits \cup {"_"}

IsWordChar(c) == c \in WordChars

\* the regular expression class \s, which is also what trim() removes
IsSpaceChar(c) == c \in {" ", "\t", "\n", "\r"}

\* .replace(/[\.,]/g, "")
StripPunctuation(s) == SelectSeq(s, LAMBDA c : c \notin {".", ","})

\* /\b(w)\b/ matches at position i of s
WordMatchAt(s, i, w) ==
    /\ i + Len(w) - 1 <= Len(s)
    /\ SubSeq(s, i, i + Len(w) - 1) = w
    /\ (i = 1 \/ ~IsWordChar(s[i - 1]))
    /\ (i + Len(w) > Len(s) \/ ~IsWordChar(s[i + Len(w)]))

RECURSIVE ReplaceWordFrom(_, _, _, _)
ReplaceWordFrom(s, i, w, r) ==
    IF i > Len(s) THEN <<>>
    ELSE IF WordMatchAt(s, i, w)
         THEN r \o ReplaceWordFrom(s, i + Len(w), w, r)
         ELSE <<s[i]>> \o ReplaceWordFrom(s, i + 1, w, r)

\* .replace(/\b(w)\b/g, r)
ReplaceWord(s, w, r) == ReplaceWordFrom(s, 1, w, r)

RECURSIVE CollapseFrom(_, _)
CollapseFrom(s, i) ==
    IF i > Len(s) THEN <<>>
    ELSE IF IsSpaceChar(s[i])
         THEN IF i > 1 /\ IsSpaceChar(s[i - 1])
              THEN CollapseFrom(s, i + 1)
              ELSE <<" ">> \o CollapseFrom(s, i + 1)
         ELSE <<s[i]>> \o CollapseFrom(s, i + 1)

\* .replace(/\s+/g, " ")
CollapseWhitespace(s) == CollapseFrom(s, 1)

RECURSIVE TrimStart(_)
TrimStart(s) ==
    IF s # <<>> /\ IsSpaceChar(Head(s)) THEN TrimStart(Tail(s)) ELSE s

RECURSIVE TrimEnd(_)
TrimEnd(s) ==
    IF s # <<>> /\ IsSpaceChar(s[Len(s)]) THEN TrimEnd(SubSeq(s, 1, Len(s) - 1)) ELSE s

\* String.prototype.trim
Trim(s) == TrimEnd(TrimStart(s))

RECURSIVE SplitFrom(_, _, _)
SplitFrom(s, i, cur) ==
    IF i > Len(s) THEN <<cur>>
    ELSE IF s[i] = " "
         THEN <<cur>> \o SplitFrom(s, i + 1, <<>>)
         ELSE SplitFrom(s, i + 1, Append(cur, s[i]))

\* s.split(" "): the empty string splits into one empty word
Split(s) == SplitFrom(s, 1, <<>>)

\* ------------------------------------------------------------------------
\* compareAddresses
\* ------------------------------------------------------------------------
Road == <<"r", "o", "a", "d">>
Street == <<"s", "t", "r", "e", "e", "t">>
Avenue == <<"a", "v", "e", "n", "u", "e">>
Mountain == <<"m", "o", "u", "n", "t", "a", "i", "n">>
Rd == <<"r", "d">>
St == <<"s", "t">>
Ave == <<"a", "v", "e">>
Mtn == <<"m", "t", "n">>

\* normalize with the punctuation stripped after the word replacements
normalize_stripLast(s) ==
    Trim(CollapseWhitespace(
        StripPunctuation(
            ReplaceWord(ReplaceWord(ReplaceWord(ReplaceWord(
                toLowerCase(s),
                Road, Rd), Street, St), Avenue, Ave), Mountain, Mtn))))

normalize(s) ==
    Trim(CollapseWhitespace(
        ReplaceWord(ReplaceWord(ReplaceWord(ReplaceWord(
            StripPunctuation(toLowerCase(s)),
            Road, Rd), Street, St), Avenue, Ave), Mountain, Mtn)))

\* new Set(norm.split(" "))
WordSet(norm) == Range(Split(norm))

\* [...inputWords].filter((w) => resultWords.has(w)).length
CommonWords(inputWords, resultWords) ==
    Cardinality({w \in inputWords : w \in resultWords})

Max(a, b) == IF a >= b THEN a ELSE b

\* TotalWords with Math.min for Math.max
TotalWords_min(inputWords, resultWords) ==
    IF Cardinality(inputWords) <= Cardinality(resultWords)
    THEN Cardinality(inputWords) ELSE Cardinality(resultWords)

\* TotalWords counting the words of the input only
TotalWords_inputOnly(inputWords, resultWords) == Cardinality(inputWords)

\* Math.max(inputWords.size, resultWords.size)
TotalWords(inputWords, resultWords) ==
    Max(Cardinality(inputWords), Cardinality(resultWords))

\* SimilarityAboveThreshold with >= for >
SimilarityAboveThreshold_atLeast(common, total) == 5 * common >= 3 * total

\* common / total > 0.6 in IEEE double arithmetic: 3/5 rounds to the double
\* that the literal 0.6 denotes, so the comparison is exactly 5*common > 3*total
SimilarityAboveThreshold(common, total) == 5 * common > 3 * total

compareAddresses(input, result) ==
    LET normInput == normalize(input)
        normResult == normalize(result)
        inputWords == WordSet(normInput)
        resultWords == WordSet(normResult)
        common == CommonWords(inputWords, resultWords)
        total == TotalWords(inputWords, resultWords)
    IN  IF normInput = normResult THEN "validated"
        ELSE IF SimilarityAboveThreshold(common, total) THEN "validated"
        ELSE "corrected"

\* ------------------------------------------------------------------------
\* JavaScript values
\* ------------------------------------------------------------------------
Undefined == <<>>
Some(v) == <<v>>

\* Array.prototype.includes
Includes(arr, x) == \E i \in DOMAIN arr : arr[i] = x

\* how a call ends: it returns a value or throws an error
Return(v) == [kind |-> "return", value |-> v]
Throw(e) == [kind |-> "throw", error |-> e]

\* reading a property of undefined
TypeError == [name |-> "TypeError", message |-> "Cannot read properties of undefined"]

\* new HttpError(statusCode, message); statusCode is an option because the
\* constructor stores whatever it is given
HttpError(statusCode, message) ==
    [name |-> "HttpError", statusCode |-> statusCode, message |-> message]

\* ------------------------------------------------------------------------
\* extractAddressComponents
\* ------------------------------------------------------------------------
\* components.find((c) => c.types.includes(type)), from index i on:
\* the index of the first component tagged with type, 0 when there is none
RECURSIVE FindFrom(_, _, _)
FindFrom(components, type, i) ==
    IF i > Len(components) THEN 0
    ELSE IF Includes(components[i].types, type) THEN i
    ELSE FindFrom(components, type, i + 1)

\* the inner function get
get(components, type, useShort) ==
    LET i == FindFrom(components, type, 1)
    IN  IF i = 0 THEN Undefined
        ELSE Some(IF useShort THEN components[i].short_name ELSE components[i].long_name)

\* JavaScript truthiness of an optional string
Truthy(v) == v # Undefined /\ v[1] # ""

\* a || b
OrElse(a, b) == IF Truthy(a) THEN a ELSE b

\* components is an option: the array, or undefined, on which .find throws
extractAddressComponents(components) ==
    IF components = Undefined THEN Throw(TypeError)
    ELSE Return([street_number |-> get(components[1], "street_number", FALSE),
                 street_name   |-> get(components[1], "route", FALSE),
                 city          |-> OrElse(get(components[1], "locality", FALSE),
                                          get(components[1], "postal_town", FALSE)),
                 state         |-> get(components[1], "administrative_area_level_1", TRUE),
                 zipCode       |-> get(components[1], "postal_code", FALSE)])

\* ------------------------------------------------------------------------
\* isCountryOnlyResult
\* ------------------------------------------------------------------------
\* isCountryOnlyResult with && for || in its return
isCountryOnlyResult_and(result) ==
    IF ~result.partial_match THEN FALSE
    ELSE LET hasCountryType ==
                 result.types # Undefined /\ Includes(result.types[1], "country")
             components ==
                 extractAddressComponents(
                     IF result.address_components # Undefined
                     THEN result.address_components ELSE Some(<<>>)).value
             lacksDetail ==
                 /\ ~Truthy(components.street_number)
                 /\ ~Truthy(components.street_name)
                 /\ ~Truthy(components.city)
                 /\ ~Truthy(components.zipCode)
         IN  hasCountryType /\ lacksDetail

isCountryOnlyResult(result) ==
    IF ~result.partial_match THEN FALSE
    ELSE LET hasCountryType ==
                 result.types # Undefined /\ Includes(result.types[1], "country")
             components ==
                 extractAddressComponents(
                     IF result.address_components # Undefined
                     THEN result.address_components ELSE Some(<<>>)).value
             lacksDetail ==
                 /\ ~Truthy(components.street_number)
                 /\ ~Truthy(components.street_name)
                 /\ ~Truthy(components.city)
                 /\ ~Truthy(components.zipCode)
         IN  hasCountryType \/ lacksDetail

\* ------------------------------------------------------------------------
\* classifyGeocodeResults
\* ------------------------------------------------------------------------
NoAddressFound == [status |-> "UNVERIFIABLE", message |-> "No address found."]
NoPreciseMatch == [status |-> "UNVERIFIABLE", message |-> "No precise US match found."]

IsExactMatch(r) == ~r.partial_match /\ r.location_type = Some("ROOFTOP")

IsPossibleMatch(r) ==
    \/ r.partial_match
    \/ /\ r.location_type # Undefined
       /\ r.location_type[1] \in {"RANGE_INTERPOLATED", "GEOMETRIC_CENTER", "APPROXIMATE"}

FormattedAddresses(rs) == [i \in DOMAIN rs |-> rs[i].formatted_address]

\* NonCountryResults keeping the country-only fallbacks
NonCountryResults_keepAll(results) == results

\* results.filter((r) => !isCountryOnlyResult(r))
NonCountryResults(results) == SelectSeq(results, LAMBDA r : ~isCountryOnlyResult(r))

\* lines 105-126: the branch taken when an exact match exists
ClassifyExact(best, originalInput) ==
    LET components == extractAddressComponents(best.address_components)
    IN  IF components.kind = "throw" THEN components
        ELSE IF compareAddresses(originalInput, best.formatted_address) = "validated"
        THEN Return([status |-> "VALIDATED",
                     exactMatch |-> [formatted_address |-> best.formatted_address,
                                     components |-> components.value]])
        ELSE Return([status |-> "CORRECTED",
                     possibleMatches |-> <<best.formatted_address>>])

\* ClassifyPossible returning the first possible match only
ClassifyPossible_firstOnly(nonCountryResults) ==
    LET possibleMatches == SelectSeq(nonCountryResults, IsPossibleMatch)
    IN  IF Len(possibleMatches) > 0
        THEN Return([status |-> "CORRECTED",
                     possibleMatches |-> <<possibleMatches[1].formatted_address>>])
        ELSE Return(NoPreciseMatch)

\* ClassifyPossible without the test possibleMatches.length > 0
ClassifyPossible_noEmptyCheck(nonCountryResults) ==
    LET possibleMatches == SelectSeq(nonCountryResults, IsPossibleMatch)
    IN  Return([status |-> "CORRECTED",
                possibleMatches |-> FormattedAddresses(possibleMatches)])

\* lines 128-143: the branch taken when no exact match exists
ClassifyPossible(nonCountryResults) ==
    LET possibleMatches == SelectSeq(nonCountryResults, IsPossibleMatch)
    IN  IF Len(possibleMatches) > 0
        THEN Return([status |-> "CORRECTED",
                     possibleMatches |-> FormattedAddresses(possibleMatches)])
        ELSE Return(NoPreciseMatch)

\* classifyGeocodeResults taking the last exact match for the first
classifyGeocodeResults_lastExact(results, originalInput) ==
    IF results = Undefined \/ Len(results[1]) = 0 THEN Return(NoAddressFound)
    ELSE LET nonCountryResults == NonCountryResults(results[1])
             exactMatches == SelectSeq(nonCountryResults, IsExactMatch)
         IN  IF Len(nonCountryResults) = 0 THEN Return(NoPreciseMatch)
             ELSE IF Len(exactMatches) > 0
             THEN ClassifyExact(exactMatches[Len(exactMatches)], originalInput)
             ELSE ClassifyPossible(nonCountryResults)

\* results is an option: data.results, or undefined
classifyGeocodeResults(results, originalInput) ==
    IF results = Undefined \/ Len(results[1]) = 0 THEN Return(NoAddressFound)
    ELSE LET nonCountryResults == NonCountryResults(results[1])
             exactMatches == SelectSeq(nonCountryResults, IsExactMatch)
         IN  IF Len(nonCountryResults) = 0 THEN Return(NoPreciseMatch)
             ELSE IF Len(exactMatches) > 0
             THEN ClassifyExact(exactMatches[1], originalInput)
             ELSE ClassifyPossible(nonCountryResults)

\* ------------------------------------------------------------------------
\* mapGoogleStatus, rethrowAxiosAsHttpError, validateUSAddress
\* ------------------------------------------------------------------------
\* the own keys of the lookup object statusToError
statusToError ==
    [s \in {"OVER_QUERY_LIMIT", "OVER_DAILY_LIMIT", "REQUEST_DENIED",
            "INVALID_REQUEST", "UNKNOWN_ERROR"} |->
        CASE s = "OVER_QUERY_LIMIT" ->
                 [code |-> 429, msg |-> "Geocoding quota exceeded"]
          [] s = "OVER_DAILY_LIMIT" ->
                 [code |-> 403, msg |-> "Geocoding request denied: invalid/missing key, billing, or usage cap"]
          [] s = "REQUEST_DENIED" ->
                 [code |-> 403, msg |-> "Geocoding request denied"]
          [] s = "INVALID_REQUEST" ->
                 [code |-> 400, msg |-> "Invalid geocoding request: missing or malformed query"]
          [] s = "UNKNOWN_ERROR" ->
                 [code |-> 503, msg |-> "Geocoding service error, try again later"]]

\* statusToError is an object literal, so a lookup also finds what it inherits
\* from Object.prototype: functions, which are truthy and have no code or msg
ObjectPrototypeKeys ==
    {"constructor", "toString", "toLocaleString", "valueOf", "hasOwnProperty",
     "isPrototypeOf", "propertyIsEnumerable", "__proto__"}

\* mapGoogleStatus letting ZERO_RESULTS through to the classifier like OK
mapGoogleStatus_zeroResultsAsOk(status) ==
    IF status = "OK" \/ status = "ZERO_RESULTS" THEN Return(Undefined)
    ELSE IF status \in DOMAIN statusToError
    THEN Throw(HttpError(Some(statusToError[status].code), statusToError[status].msg))
    ELSE IF status \in ObjectPrototypeKeys
    THEN Throw(HttpError(Undefined, ""))
    ELSE Throw(HttpError(Some(502), "Unexpected geocoding status"))

\* returns null (Undefined here) for OK, a result for ZERO_RESULTS, throws otherwise
mapGoogleStatus(status) ==
    IF status = "OK" THEN Return(Undefined)
    ELSE IF status = "ZERO_RESULTS" THEN Return(Some(NoAddressFound))
    ELSE IF status \in DOMAIN statusToError
    THEN Throw(HttpError(Some(statusToError[status].code), statusToError[status].msg))
    ELSE IF status \in ObjectPrototypeKeys
    THEN Throw(HttpError(Undefined, ""))
    ELSE Throw(HttpError(Some(502), "Unexpected geocoding status"))

\* always throws; the value is the error it throws
rethrowAxiosAsHttpError(err) ==
    IF err.name = "HttpError" THEN err
    ELSE IF err.name = "AxiosError"
    THEN LET status == err.responseStatus
         IN  IF status = Some(403) THEN HttpError(Some(403), "Geocoding access forbidden")
             ELSE IF status = Some(429) THEN HttpError(Some(429), "Geocoding rate limited")
             ELSE IF status # Undefined /\ status[1] >= 500
             THEN HttpError(Some(503), "Geocoding upstream error")
             ELSE HttpError(Some(502), "Geocoding upstream unavailable")
    ELSE HttpError(Some(500), "Unexpected error during geocoding")

None == [kind |-> "none"]

\* validateUSAddress once axios.get has settled.  classified tells whether
\* classifyGeocodeResults was invoked, outcome is how that call ended, and
\* completion is how validateUSAddress ends.
validateUSAddress(address, settled) ==
    IF settled.kind = "reject"
    THEN [classified |-> FALSE, outcome |-> None,
          completion |-> Throw(rethrowAxiosAsHttpError(settled.err))]
    ELSE LET data == settled.data
             statusOutcome == mapGoogleStatus(data.status)
         IN  IF statusOutcome.kind = "throw"
             THEN [classified |-> FALSE, outcome |-> None,
                   completion |-> Throw(rethrowAxiosAsHttpError(statusOutcome.error))]
             ELSE IF statusOutcome.value # Undefined
             THEN [classified |-> FALSE, outcome |-> None,
                   completion |-> Return(statusOutcome.value[1])]
             ELSE LET outcome == classifyGeocodeResults(data.results, address)
                  IN  [classified |-> TRUE, outcome |-> outcome,
                       completion |->
                           IF outcome.kind = "throw"
                           THEN Throw(rethrowAxiosAsHttpError(outcome.error))
                           ELSE outcome]

\* ------------------------------------------------------------------------
\* validateAddressController behind asyncHandler, and errorHandler
\* ------------------------------------------------------------------------
errorHandler(err) ==
    LET isHttp == err.name = "HttpError"
    IN  [status |-> IF isHttp THEN err.statusCode ELSE Some(500),
         error |-> Some(IF isHttp THEN err.message ELSE "Internal server error")]

\* the controller's reply, or errorHandler's when the awaited call rejects
\* and asyncHandler forwards the error to next
validateAddressController(address, completion) ==
    IF completion.kind = "throw" THEN errorHandler(completion.error)
    ELSE [status |-> Some(200), error |-> Undefined]

\* ------------------------------------------------------------------------
\* The values the model draws requests and provider replies from
\* ------------------------------------------------------------------------
\* "123 Mian St"
InputMian == <<"1", "2", "3", " ", "M", "i", "a", "n", " ", "S", "t">>
\* "123 main street"
InputStreet == <<"1", "2", "3", " ", "m", "a", "i", "n", " ", "s", "t", "r", "e", "e", "t">>
\* "123 Main St, Anytown, CA 90210, USA"
FormattedAnytown ==
    <<"1", "2", "3", " ", "M", "a", "i", "n", " ", "S", "t", ",", " ",
      "A", "n", "y", "t", "o", "w", "n", ",", " ", "C", "A", " ",
      "9", "0", "2", "1", "0", ",", " ", "U", "S", "A">>
\* "123 Main St."
FormattedShort == <<"1", "2", "3", " ", "M", "a", "i", "n", " ", "S", "t", ".">>

\* req.body.address as validateAddressPayload leaves it: trimmed and non-empty
Inputs == {InputMian, InputStreet}

FormattedSet == {FormattedAnytown, FormattedShort}

Component(long, short, types) == [long_name |-> long, short_name |-> short, types |-> types]

DetailComponents ==
    <<Component("123", "123", <<"street_number">>),
      Component("Main Street", "Main St", <<"route">>),
      Component("Anytown", "Anytown", <<"locality", "political">>),
      Component("California", "CA", <<"administrative_area_level_1", "political">>),
      Component("United States", "US", <<"country", "political">>),
      Component("90210", "90210", <<"postal_code">>)>>

LocationTypes ==
    {Undefined, Some("ROOFTOP"), Some("RANGE_INTERPOLATED"),
     Some("GEOMETRIC_CENTER"), Some("APPROXIMATE")}

\* what a candidate carries as types and address_components: a street
\* address with its components, a result typed country that still has
\* detailed components, and a result on which the provider omitted both
Shapes ==
    {[types |-> Some(<<"street_address">>), address_components |-> Some(DetailComponents)],
     [types |-> Some(<<"country", "political">>), address_components |-> Some(DetailComponents)],
     [types |-> Undefined, address_components |-> Undefined]}

\* the elements of data.results
Candidates ==
    {[formatted_address |-> f, partial_match |-> p, location_type |-> l,
      types |-> sh.types, address_components |-> sh.address_components] :
        f \in FormattedSet, p \in BOOLEAN, l \in LocationTypes, sh \in Shapes}

GoogleStatuses ==
    {"OK", "ZERO_RESULTS", "OVER_QUERY_LIMIT", "OVER_DAILY_LIMIT", "REQUEST_DENIED",
     "INVALID_REQUEST", "UNKNOWN_ERROR", "MAX_ROUTE_LENGTH_EXCEEDED", "constructor"}

\* results of replies of any status: absent, empty, or one precise candidate
OtherResults ==
    {Undefined, Some(<<>>),
     Some(<<[formatted_address |-> FormattedShort, partial_match |-> FALSE,
             location_type |-> Some("ROOFTOP"), types |-> Some(<<"street_address">>),
             address_components |-> Some(DetailComponents)]>>)}

\* the errors axios.get can reject with
Rejections ==
    {[name |-> "AxiosError", responseStatus |-> st] :
        st \in {Undefined, Some(400), Some(403), Some(429), Some(500), Some(503)}}
    \cup {[name |-> "Error"]}

\* ------------------------------------------------------------------------
\* The strings the string functions are applied to
\* ------------------------------------------------------------------------
\* pieces of addresses: halves of a mapped word, mapped words in either
\* case, punctuation, white space and other characters
Fragments ==
    {<<"R", "o">>, <<"a", "d">>, Road, <<"S", "t", "r", "e", "e", "t">>, Avenue, Mountain,
     <<".">>, <<",">>, <<" ">>, <<"\t">>, <<"x">>, <<"_">>}

\* words of addresses, the empty word among them
Words == {<<>>, <<"a">>, <<"b">>, <<"R", "d", ".">>}

RECURSIVE Concat(_)
Concat(parts) == IF parts = <<>> THEN <<>> ELSE Head(parts) \o Concat(Tail(parts))

RECURSIVE Join(_)
Join(ws) ==
    IF ws = <<>> THEN <<>>
    ELSE IF Len(ws) = 1 THEN ws[1]
    ELSE ws[1] \o <<" ">> \o Join(Tail(ws))

\* ------------------------------------------------------------------------
\* State
\* ------------------------------------------------------------------------
VARIABLES
    pc,        \* "idle", "awaiting" (axios.get pending) or "responded"
    address,   \* req.body.address of the request being served
    settled,   \* how axios.get settled
    service,   \* validateUSAddress: whether it classified, and its completion
    response,  \* the HTTP response sent: its status, and its error message if any
    strA,      \* a string handed to normalize or compareAddresses
    strB,      \* the second string handed to compareAddresses
    out        \* what the string functions returned, in the order of the calls

vars == <<pc, address, settled, service, response, strA, strB, out>>

reqVars == <<pc, address, settled, service, response>>

strVars == <<strA, strB, out>>

InitRequest ==
    /\ pc = "idle"
    /\ address = <<>>
    /\ settled = None
    /\ service = None
    /\ response = None

Init ==
    /\ InitRequest
    /\ strA = <<>>
    /\ strB = <<>>
    /\ out = <<>>

\* POST /validate-address with a valid payload: the controller calls
\* validateUSAddress, which awaits axios.get
ReceiveRequest ==
    /\ pc = "idle"
    /\ \E a \in Inputs : address' = a
    /\ pc' = "awaiting"
    /\ UNCHANGED <<settled, service, response, strVars>>

\* what follows the await, up to the response
Settle(s) ==
    /\ settled' = s
    /\ service' = validateUSAddress(address, s)
    /\ response' = validateAddressController(address, service'.completion)
    /\ pc' = "responded"
    /\ UNCHANGED <<address, strVars>>

\* axios.get resolves with a body whose status is OK and whose results are
\* up to MaxResults candidates, or with any status and the results such a
\* reply carries
AxiosResolves ==
    /\ pc = "awaiting"
    /\ \/ \E n \in 0..MaxResults : \E rs \in [1..n -> Candidates] :
             Settle([kind |-> "resolve", data |-> [status |-> "OK", results |-> Some(rs)]])
       \/ \E st \in GoogleStatuses, rs \in OtherResults :
             Settle([kind |-> "resolve", data |-> [status |-> st, results |-> rs]])

AxiosRejects ==
    /\ pc = "awaiting"
    /\ \E err \in Rejections : Settle([kind |-> "reject", err |-> err])

Next == ReceiveRequest \/ AxiosResolves \/ AxiosRejects

Spec == Init /\ [][Next]_vars

\* ------------------------------------------------------------------------
\* normalize applied twice to strings of up to MaxFrags fragments
\* ------------------------------------------------------------------------
InitNormalize ==
    /\ InitRequest
    /\ \E n \in 0..MaxFrags : \E parts \in [1..n -> Fragments] : strA = Concat(parts)
    /\ strB = <<>>
    /\ out = <<>>

NormalizeOnce ==
    /\ Len(out) = 0
    /\ out' = <<normalize(strA)>>
    /\ UNCHANGED <<reqVars, strA, strB>>

NormalizeAgain ==
    /\ Len(out) = 1
    /\ out' = Append(out, normalize(out[1]))
    /\ UNCHANGED <<reqVars, strA, strB>>

NextNormalize == NormalizeOnce \/ NormalizeAgain

SpecNormalize == InitNormalize /\ [][NextNormalize]_vars

\* ------------------------------------------------------------------------
\* compareAddresses applied both ways to strings of up to MaxWords words
\* ------------------------------------------------------------------------
InitCompare ==
    /\ InitRequest
    /\ \E n \in 0..MaxWords : \E ws \in [1..n -> Words] : strA = Join(ws)
    /\ \E n \in 0..MaxWords : \E ws \in [1..n -> Words] : strB = Join(ws)
    /\ out = <<>>

CompareForward ==
    /\ Len(out) = 0
    /\ out' = <<compareAddresses(strA, strB)>>
    /\ UNCHANGED <<reqVars, strA, strB>>

CompareBackward ==
    /\ Len(out) = 1
    /\ out' = Append(out, compareAddresses(strB, strA))
    /\ UNCHANGED <<reqVars, strA, strB>>

NextCompare == CompareForward \/ CompareBackward

SpecCompare == InitCompare /\ [][NextCompare]_vars

\* ------------------------------------------------------------------------
\* compareAddresses applied to an input of up to MaxShared words and a result
\* of up to MaxShared such words followed by words the input cannot have
\* ------------------------------------------------------------------------
\* words an input and a result can share, one of them a mapped word
SharedWords == {<<"a">>, <<"b">>, Road}

\* words only the result has: none, one, two, or one twice
ResultTails == {<<>>, <<<<"d">>>>, <<<<"d">>, <<"e">>>>, <<<<"d">>, <<"d">>>>}

InitThreshold ==
    /\ InitRequest
    /\ \E n \in 0..MaxShared : \E ws \in [1..n -> SharedWords] : strA = Join(ws)
    /\ \E n \in 0..MaxShared : \E ws \in [1..n -> SharedWords] :
          \E tail \in ResultTails : strB = Join(ws \o tail)
    /\ out = <<>>

SpecThreshold == InitThreshold /\ [][NextCompare]_vars

\* ------------------------------------------------------------------------
\* Properties
\* ------------------------------------------------------------------------
\* the request was answered and classifyGeocodeResults was invoked for it
Classified == pc = "responded" /\ service.classified

\* data.results of the reply: an option
Results == settled.data.results

NonPartialRooftop(c) == ~c.partial_match /\ c.location_type = Some("ROOFTOP")

TypedCountry(c) == c.types # Undefined /\ Includes(c.types[1], "country")

DetailTags == {"street_number", "route", "locality", "postal_town", "postal_code"}

\* the candidate has a component giving a street number, a street name, a
\* city or a postal code
HasDetail(c) ==
    /\ c.address_components # Undefined
    /\ \E k \in DOMAIN c.address_components[1] :
          /\ c.address_components[1][k].long_name # ""
          /\ \E t \in DetailTags : Includes(c.address_components[1][k].types, t)

SameNormalForm(a, b) == normalize(a) = normalize(b)

\* C1 as stated, for the calls that return: whenever some candidate, at any
\* position, is non-partial ROOFTOP and its formatted address normalizes to
\* the same string as the input, the outcome is Exact (VALIDATED).
C1_AnyMatchingRooftopIsExact ==
    (Classified /\ Results # Undefined /\ service.outcome.kind = "return") =>
        LET rs == Results[1]
        IN  (\E i \in DOMAIN rs :
                /\ NonPartialRooftop(rs[i])
                /\ SameNormalForm(rs[i].formatted_address, address))
            => service.outcome.value.status = "VALIDATED"

\* C1 amended: when the FIRST non-partial ROOFTOP candidate in provider
\* order has a formatted address that normalizes to the same string as the
\* input, the outcome is Exact with that candidate's formatted address;
\* when that candidate carries no address_components the call throws a
\* TypeError instead (C5).
C1_FirstMatchingRooftopIsExact ==
    (Classified /\ Results # Undefined) =>
        LET rs == Results[1]
        IN  \A i \in DOMAIN rs :
                (/\ NonPartialRooftop(rs[i])
                 /\ \A j \in 1..(i - 1) : ~NonPartialRooftop(rs[j])
                 /\ SameNormalForm(rs[i].formatted_address, address))
                => IF rs[i].address_components = Undefined
                   THEN service.outcome = Throw(TypeError)
                   ELSE /\ service.outcome.kind = "return"
                        /\ service.outcome.value.status = "VALIDATED"
                        /\ service.outcome.value.exactMatch.formatted_address
                               = rs[i].formatted_address

\* C1 witness: the matching ROOFTOP candidate is second, after a partial
\* candidate, and the outcome is Exact
C1_Witness ==
    /\ Classified
    /\ Results # Undefined
    /\ Len(Results[1]) = 2
    /\ Results[1][1].partial_match
    /\ NonPartialRooftop(Results[1][2])
    /\ SameNormalForm(Results[1][2].formatted_address, address)
    /\ service.outcome.kind = "return"
    /\ service.outcome.value.status = "VALIDATED"

\* the reply of scenario 5: one non-partial ROOFTOP candidate whose
\* formatted address is "123 Main St, Anytown, CA 90210, USA", for the
\* input "123 Mian St"
MianScenario ==
    /\ Classified
    /\ address = InputMian
    /\ Results # Undefined
    /\ Len(Results[1]) = 1
    /\ NonPartialRooftop(Results[1][1])
    /\ Results[1][1].formatted_address = FormattedAnytown

MianCommon ==
    CommonWords(WordSet(normalize(InputMian)), WordSet(normalize(FormattedAnytown)))

MianTotal ==
    TotalWords(WordSet(normalize(InputMian)), WordSet(normalize(FormattedAnytown)))

\* C2 as stated: in scenario 5 the word-overlap similarity is greater than
\* 0.6 and the outcome is Exact (VALIDATED).
C2_MianTypoIsExact ==
    MianScenario =>
        /\ SimilarityAboveThreshold(MianCommon, MianTotal)
        /\ service.outcome.kind = "return"
        /\ service.outcome.value.status = "VALIDATED"

\* C2 amended: in scenario 5 the two normalized strings share 2 words of at
\* most 7, a similarity of 2/7 that is not greater than 0.6;
\* compareAddresses returns "corrected" and the outcome is Corrected with
\* the candidate's formatted address as its only alternative (a TypeError
\* when the candidate carries no address_components, C5).
C2_MianTypoIsCorrected ==
    MianScenario =>
        /\ MianCommon = 2
        /\ MianTotal = 7
        /\ compareAddresses(address, Results[1][1].formatted_address) = "corrected"
        /\ IF Results[1][1].address_components = Undefined
           THEN service.outcome = Throw(TypeError)
           ELSE service.outcome =
                    Return([status |-> "CORRECTED",
                            possibleMatches |-> <<FormattedAnytown>>])

\* C2 witness: scenario 5 answered with the Corrected outcome
C2_Witness ==
    /\ MianScenario
    /\ service.outcome.kind = "return"
    /\ service.outcome.value.status = "CORRECTED"
    /\ response.status = Some(200)

\* two candidates, both partial and APPROXIMATE
TwoPartialApproximate ==
    /\ Classified
    /\ Results # Undefined
    /\ Len(Results[1]) = 2
    /\ \A i \in 1..2 : /\ Results[1][i].partial_match
                       /\ Results[1][i].location_type = Some("APPROXIMATE")

BothAlternatives ==
    service.outcome =
        Return([status |-> "CORRECTED",
                possibleMatches |-> <<Results[1][1].formatted_address,
                                      Results[1][2].formatted_address>>])

\* C3 as stated: two candidates that are both partial and APPROXIMATE, with
\* no condition on types or components, give Corrected with the two
\* formatted addresses in the order given.
C3_TwoPartialsAreAlternatives == TwoPartialApproximate => BothAlternatives

\* C3 amended: two candidates that are both partial and APPROXIMATE, neither
\* of them typed "country" and each with a component giving a street number,
\* street name, city or postal code, give Corrected with the two formatted
\* addresses in the order given.
C3_TwoDetailedPartialsAreAlternatives ==
    (/\ TwoPartialApproximate
     /\ \A i \in 1..2 : ~TypedCountry(Results[1][i]) /\ HasDetail(Results[1][i]))
    => BothAlternatives

\* C3 witness: two such candidates with different formatted addresses
C3_Witness ==
    /\ TwoPartialApproximate
    /\ \A i \in 1..2 : ~TypedCountry(Results[1][i]) /\ HasDetail(Results[1][i])
    /\ Results[1][1].formatted_address = FormattedAnytown
    /\ Results[1][2].formatted_address = FormattedShort
    /\ BothAlternatives

\* every candidate is partial and typed "country"
AllPartialCountry ==
    /\ Classified
    /\ Results # Undefined
    /\ \A i \in DOMAIN Results[1] : /\ Results[1][i].partial_match
                                    /\ TypedCountry(Results[1][i])

\* C4: when every candidate is partial and typed "country" the outcome is
\* Unverifiable, with the message "No precise US match found." when the
\* sequence is non-empty, whatever the location types and components.
C4_CountryOnlyIsUnverifiable ==
    AllPartialCountry =>
        service.outcome =
            Return(IF Len(Results[1]) = 0
                   THEN [status |-> "UNVERIFIABLE", message |-> "No address found."]
                   ELSE [status |-> "UNVERIFIABLE",
                         message |-> "No precise US match found."])

\* C4 witness: two partial country candidates, the first ROOFTOP with
\* detailed components, answered Unverifiable
C4_Witness ==
    /\ AllPartialCountry
    /\ Len(Results[1]) = 2
    /\ Results[1][1].location_type = Some("ROOFTOP")
    /\ HasDetail(Results[1][1])
    /\ service.outcome.kind = "return"
    /\ service.outcome.value.message = "No precise US match found."

\* C5: classifyGeocodeResults is total: every call returns an outcome and
\* none throws, whatever component list the provider omitted.
C5_ClassifierNeverThrows == Classified => service.outcome.kind = "return"

\* C5 holds of the calls whose first exact candidate carries its
\* address_components: only the omitted list makes the classifier throw
ClassifierThrowsOnlyOnOmittedComponents ==
    (Classified /\ service.outcome.kind = "throw") =>
        /\ service.outcome = Throw(TypeError)
        /\ \E i \in DOMAIN Results[1] :
              /\ NonPartialRooftop(Results[1][i])
              /\ \A j \in 1..(i - 1) : ~NonPartialRooftop(Results[1][j])
              /\ Results[1][i].address_components = Undefined

\* C6: an outcome that classifyGeocodeResults returns is one of the three
\* variants and carries that variant's payload only: VALIDATED has
\* exactMatch, CORRECTED has possibleMatches, UNVERIFIABLE has message, and
\* possibleMatches of a CORRECTED outcome is not empty.
C6_OutcomeIsOneVariant ==
    (Classified /\ service.outcome.kind = "return") =>
        LET v == service.outcome.value
        IN  \/ /\ v.status = "VALIDATED"
               /\ DOMAIN v = {"status", "exactMatch"}
               /\ DOMAIN v.exactMatch = {"formatted_address", "components"}
            \/ /\ v.status = "CORRECTED"
               /\ DOMAIN v = {"status", "possibleMatches"}
               /\ Len(v.possibleMatches) > 0
            \/ /\ v.status = "UNVERIFIABLE"
               /\ DOMAIN v = {"status", "message"}

\* C6 witness: a non-partial candidate that is neither ROOFTOP nor of a less
\* precise location type leaves no possible match, and the outcome is
\* Unverifiable rather than Corrected with no alternative
C6_Witness ==
    /\ Classified
    /\ Results # Undefined
    /\ Len(Results[1]) = 1
    /\ ~Results[1][1].partial_match
    /\ Results[1][1].location_type = Undefined
    /\ service.outcome = Return([status |-> "UNVERIFIABLE",
                                 message |-> "No precise US match found."])

\* C7: compareAddresses is symmetric: compareAddresses(a, b) and
\* compareAddresses(b, a) return the same verdict.
C7_CompareIsSymmetric == Len(out) = 2 => out[1] = out[2]

\* C7 witness: one string normalizes to the empty string, the other repeats
\* a word, and both calls return "corrected"
C7_Witness ==
    /\ Len(out) = 2
    /\ strA = <<" ">>
    /\ strB = <<"a", " ", "a">>
    /\ out[1] = "corrected"
    /\ out[2] = "corrected"

\* C8: normalize is idempotent: normalize(normalize(s)) = normalize(s).
C8_NormalizeIsIdempotent == Len(out) = 2 => out[2] = out[1]

\* C8 witness: stripping the period of "Ro.ad" joins the fragments into
\* "road", which is replaced in the same pass
C8_Witness ==
    /\ Len(out) = 2
    /\ strA = <<"R", "o", ".", "a", "d">>
    /\ out[1] = <<"r", "d">>
    /\ out[2] = <<"r", "d">>

\* axios.get resolved with a reply of the provider
Replied == pc = "responded" /\ settled.kind = "resolve"

\* C9 as stated: the classifier is invoked only when the provider status is
\* OK, and every other status, ZERO_RESULTS included, is raised to the
\* caller as an error rather than answered with a classification outcome.
C9_NonOkStatusIsRaised ==
    Replied =>
        /\ service.classified => settled.data.status = "OK"
        /\ settled.data.status # "OK" => service.completion.kind = "throw"

\* C9 amended: the classifier is invoked exactly when the provider status is
\* OK; ZERO_RESULTS is answered without the classifier by the outcome
\* Unverifiable "No address found."; every other status is raised to the
\* caller as an HttpError.
C9_OnlyOkIsClassified ==
    pc = "responded" =>
        IF settled.kind = "resolve"
        THEN /\ service.classified <=> settled.data.status = "OK"
             /\ settled.data.status = "ZERO_RESULTS" =>
                    service.completion =
                        Return([status |-> "UNVERIFIABLE", message |-> "No address found."])
             /\ settled.data.status \notin {"OK", "ZERO_RESULTS"} =>
                    /\ service.completion.kind = "throw"
                    /\ service.completion.error.name = "HttpError"
        ELSE ~service.classified

\* C9 witness: a ZERO_RESULTS reply that carries a precise candidate is
\* answered Unverifiable without the classifier
C9_Witness ==
    /\ Replied
    /\ settled.data.status = "ZERO_RESULTS"
    /\ Results # Undefined
    /\ Len(Results[1]) = 1
    /\ ~service.classified
    /\ service.completion.kind = "return"
    /\ service.completion.value.status = "UNVERIFIABLE"
    /\ response.status = Some(200)

DocumentedStatuses ==
    {"OK", "ZERO_RESULTS", "OVER_QUERY_LIMIT", "OVER_DAILY_LIMIT", "REQUEST_DENIED",
     "INVALID_REQUEST", "UNKNOWN_ERROR"}

\* C10: the HTTP status follows the Google status: OVER_QUERY_LIMIT gives
\* 429, OVER_DAILY_LIMIT and REQUEST_DENIED give 403, INVALID_REQUEST gives
\* 400, UNKNOWN_ERROR gives 503 and any other status except OK and
\* ZERO_RESULTS gives 502; the HttpError of the status mapping reaches
\* errorHandler with its status code unchanged.
C10_GoogleStatusGivesHttpStatus ==
    Replied =>
        LET st == settled.data.status
        IN  /\ st = "OVER_QUERY_LIMIT" => response.status = Some(429)
            /\ st \in {"OVER_DAILY_LIMIT", "REQUEST_DENIED"} => response.status = Some(403)
            /\ st = "INVALID_REQUEST" => response.status = Some(400)
            /\ st = "UNKNOWN_ERROR" => response.status = Some(503)
            /\ st \notin DocumentedStatuses => response.status = Some(502)

\* the part of C10 that holds: the error thrown by the status mapping is
\* the error validateUSAddress throws, and its status code is the status of
\* the response; for a status that Object.prototype does not name the
\* codes are the documented ones
StatusErrorPassesThrough ==
    (Replied /\ settled.data.status \notin {"OK", "ZERO_RESULTS"}) =>
        /\ service.completion = mapGoogleStatus(settled.data.status)
        /\ response.status = service.completion.error.statusCode
        /\ settled.data.status \notin ObjectPrototypeKeys =>
               response.status \in {Some(429), Some(403), Some(400), Some(503), Some(502)}

\* the position of the first non-partial ROOFTOP candidate of rs, 0 if none
FirstRooftop(rs) ==
    IF \E i \in DOMAIN rs : NonPartialRooftop(rs[i])
    THEN CHOOSE i \in DOMAIN rs :
             /\ NonPartialRooftop(rs[i])
             /\ \A j \in 1..(i - 1) : ~NonPartialRooftop(rs[j])
    ELSE 0

\* the outcome that the candidate best alone gives for the input: Exact with
\* its formatted address and the components extracted from it (none when it
\* carries no component list) if compareAddresses says "validated", and
\* otherwise Corrected with its formatted address as the only alternative
OutcomeOfBest(best, input) ==
    LET given == IF best.address_components = Undefined
                 THEN Some(<<>>) ELSE best.address_components
    IN  IF compareAddresses(input, best.formatted_address) = "validated"
        THEN Return([status |-> "VALIDATED",
                     exactMatch |->
                         [formatted_address |-> best.formatted_address,
                          components |-> extractAddressComponents(given).value]])
        ELSE Return([status |-> "CORRECTED",
                     possibleMatches |-> <<best.formatted_address>>])

\* C11: whenever some candidate is non-partial ROOFTOP, the outcome depends
\* only on the first such candidate in provider order and the input: Exact
\* with that candidate's formatted address and components if compareAddresses
\* says "validated", otherwise Corrected with that candidate's formatted
\* address as the only alternative; no other candidate changes the outcome.
C11_FirstRooftopDecidesOutcome ==
    (Classified /\ Results # Undefined /\ FirstRooftop(Results[1]) # 0) =>
        service.outcome = OutcomeOfBest(Results[1][FirstRooftop(Results[1])], address)

\* the part of C11 that holds: when the first non-partial ROOFTOP candidate
\* carries its address_components, it alone decides the outcome
FirstRooftopDecidesWhenComponentsGiven ==
    (/\ Classified
     /\ Results # Undefined
     /\ FirstRooftop(Results[1]) # 0
     /\ Results[1][FirstRooftop(Results[1])].address_components # Undefined)
    => service.outcome = OutcomeOfBest(Results[1][FirstRooftop(Results[1])], address)

\* a reply in which the first non-partial ROOFTOP candidate, with its
\* components, comes second after a partial candidate with another address
\* and decides the outcome
FirstRooftopReached ==
    /\ Classified
    /\ Results # Undefined
    /\ Len(Results[1]) = 2
    /\ FirstRooftop(Results[1]) = 2
    /\ Results[1][1].partial_match
    /\ ~isCountryOnlyResult(Results[1][1])
    /\ Results[1][1].formatted_address # Results[1][2].formatted_address
    /\ Results[1][2].address_components # Undefined
    /\ service.outcome.kind = "return"
    /\ service.outcome.value.status = "CORRECTED"
    /\ service.outcome.value.possibleMatches = <<Results[1][2].formatted_address>>

\* the candidate is a country-only fallback: partial, and either typed
\* "country" or without street number, street name, city and postal code
CountryOnlyFallback(c) == c.partial_match /\ (TypedCountry(c) \/ ~HasDetail(c))

\* the candidate is partial or of a less precise location type
LessPrecise(c) ==
    \/ c.partial_match
    \/ c.location_type \in {Some("RANGE_INTERPOLATED"), Some("GEOMETRIC_CENTER"),
                            Some("APPROXIMATE")}

\* the formatted addresses of the candidates of rs that are not country-only
\* fallbacks and are less precise, in the order of rs, duplicates kept
RECURSIVE Alternatives(_)
Alternatives(rs) ==
    IF rs = <<>> THEN <<>>
    ELSE IF ~CountryOnlyFallback(Head(rs)) /\ LessPrecise(Head(rs))
    THEN <<Head(rs).formatted_address>> \o Alternatives(Tail(rs))
    ELSE Alternatives(Tail(rs))

\* what the alternatives of rs give: Corrected with them, or Unverifiable
\* "No precise US match found." when there is none
OutcomeOfAlternatives(rs) ==
    IF Alternatives(rs) # <<>>
    THEN Return([status |-> "CORRECTED", possibleMatches |-> Alternatives(rs)])
    ELSE Return([status |-> "UNVERIFIABLE", message |-> "No precise US match found."])

\* the reply has a candidate sequence without non-partial ROOFTOP candidate
NoRooftop == Classified /\ Results # Undefined /\ FirstRooftop(Results[1]) = 0

\* C12 as stated: whenever no candidate is non-partial ROOFTOP, the empty
\* sequence included, the outcome is Corrected with the formatted addresses
\* of the candidates that survive the country-only filter and are partial or
\* RANGE_INTERPOLATED, GEOMETRIC_CENTER or APPROXIMATE, in provider order
\* with duplicates kept, and Unverifiable "No precise US match found." when
\* no candidate qualifies.
C12_LessPreciseAreAlternatives == NoRooftop => service.outcome = OutcomeOfAlternatives(Results[1])

\* C12 amended: for a non-empty candidate sequence without non-partial
\* ROOFTOP candidate the outcome is as C12 states; for the empty sequence it
\* is Unverifiable with the message "No address found.".
C12_LessPreciseOfNonEmptyAreAlternatives ==
    NoRooftop =>
        service.outcome =
            IF Len(Results[1]) = 0
            THEN Return([status |-> "UNVERIFIABLE", message |-> "No address found."])
            ELSE OutcomeOfAlternatives(Results[1])

\* C12 witness: a partial ROOFTOP candidate and a non-partial
\* GEOMETRIC_CENTER candidate with the same formatted address both become
\* alternatives, the duplicate kept
C12_Witness ==
    /\ NoRooftop
    /\ Len(Results[1]) = 2
    /\ Results[1][1].partial_match
    /\ Results[1][1].location_type = Some("ROOFTOP")
    /\ ~Results[1][2].partial_match
    /\ Results[1][2].location_type = Some("GEOMETRIC_CENTER")
    /\ Results[1][1].formatted_address = FormattedShort
    /\ Results[1][2].formatted_address = FormattedShort
    /\ service.outcome =
           Return([status |-> "CORRECTED",
                   possibleMatches |-> <<FormattedShort, FormattedShort>>])

\* a country-only fallback ahead of a surviving partial candidate is left
\* out of the alternatives
FallbackLeftOut ==
    /\ NoRooftop
    /\ Len(Results[1]) = 2
    /\ CountryOnlyFallback(Results[1][1])
    /\ Results[1][1].formatted_address = FormattedAnytown
    /\ Results[1][2].formatted_address = FormattedShort
    /\ service.outcome =
           Return([status |-> "CORRECTED", possibleMatches |-> <<FormattedShort>>])

\* the distinct words of the normalized string s
DistinctWords(s) == WordSet(normalize(s))

\* the verdict C13 gives for a and b: "validated" if and only if the
\* normalized strings are equal or common / larger > 0.6, that is
\* 5 * common > 3 * larger
VerdictOfOverlap(a, b) ==
    LET common == Cardinality(DistinctWords(a) \cap DistinctWords(b))
        sizes == {Cardinality(DistinctWords(a)), Cardinality(DistinctWords(b))}
        larger == CHOOSE m \in sizes : \A k \in sizes : k <= m
    IN  IF normalize(a) = normalize(b) \/ 5 * common > 3 * larger
        THEN "validated" ELSE "corrected"

\* C13: compareAddresses(a, b) returns "validated" if and only if the
\* normalized strings are equal or the number of distinct common words
\* divided by the larger distinct-word count is strictly greater than 0.6; a
\* similarity of exactly 0.6 returns "corrected", and repeated words count
\* once.
C13_ValidatedIffOverlapAboveThreshold ==
    /\ Len(out) >= 1 => out[1] = VerdictOfOverlap(strA, strB)
    /\ Len(out) = 2 => out[2] = VerdictOfOverlap(strB, strA)

\* C13 witness: "a b road" and "a b road d e" share 3 distinct words of at
\* most 5, a similarity of exactly 0.6, and the verdict is "corrected"
C13_Witness ==
    /\ Len(out) = 2
    /\ strA = Join(<<<<"a">>, <<"b">>, Road>>)
    /\ strB = Join(<<<<"a">>, <<"b">>, Road, <<"d">>, <<"e">>>>)
    /\ Rd \in DistinctWords(strA) \cap DistinctWords(strB)
    /\ Cardinality(DistinctWords(strA) \cap DistinctWords(strB)) = 3
    /\ Cardinality(DistinctWords(strB)) = 5
    /\ out = <<"corrected", "corrected">>

\* a repeated word counts once: "a b road" and "a b road d d" share 3 words
\* of at most 4, and the verdict is "validated"
RepeatedWordCountsOnce ==
    /\ Len(out) >= 1
    /\ strA = Join(<<<<"a">>, <<"b">>, Road>>)
    /\ strB = Join(<<<<"a">>, <<"b">>, Road, <<"d">>, <<"d">>>>)
    /\ Cardinality(DistinctWords(strB)) = 4
    /\ out[1] = "validated"

====
